---- MODULE Spec2Model ----
(***************************************************************************)
(* A model of the LLDP agent of beshoysaad/lldp: the TLV codec, the LLDPDU *)
(* assembler (append / complete / __bytes__) and the LLDPDU decoder        *)
(* (from_bytes).  Octets are integers 0..255, byte strings are sequences   *)
(* of octets, Python's 0-based indices are kept and translated to the      *)
(* 1-based sequences of TLA+ by At and Slice.                              *)
(***************************************************************************)
EXTENDS Integers, Sequences, FiniteSets, TLC

(***************************************************************************)
(* Bounds of the model.                                                    *)
(***************************************************************************)
\* the largest number of records an LLDPDU is grown to by append calls
MaxTlvs == 5

(***************************************************************************)
(* TLV.Type, the 7-bit type tags.                                          *)
(***************************************************************************)
END_OF_LLDPDU == 0
CHASSIS_ID == 1
PORT_ID == 2
TTL == 3
PORT_DESCRIPTION == 4
SYSTEM_NAME == 5
SYSTEM_DESCRIPTION == 6
SYSTEM_CAPABILITIES == 7
MANAGEMENT_ADDRESS == 8
ORGANIZATIONALLY_SPECIFIC == 127

\* the ceiling on the octets of an LLDPDU (append's size check)
MaxLLDPDUSize == 1500

(***************************************************************************)
(* Byte strings.                                                           *)
(***************************************************************************)
\* n octets of value b
Fill(n, b) == [i \in 1..n |-> b]

\* Python's data[i] for an index 0 <= i < len(data)
At(data, i) == data[i + 1]

\* Python's data[a:b] for 0 <= a: the slice is clipped to the buffer, never an error
Slice(data, a, b) ==
    LET hi == IF b > Len(data) THEN Len(data) ELSE b
    IN  IF a >= hi THEN <<>> ELSE SubSeq(data, a + 1, hi)

\* int.to_bytes(2, byteorder='big') of 0 <= n <= 65535
U16(n) == <<n \div 256, n % 256>>

(***************************************************************************)
(* Results of a call that may raise: exc is "none" when it returned.       *)
(***************************************************************************)
NoTLV == [type |-> -1, subtype |-> 0, kind |-> "none", value |-> <<>>, bytes |-> <<>>]
Returned(t) == [exc |-> "none", tlv |-> t]
Raised(e) == [exc |-> e, tlv |-> NoTLV]

(***************************************************************************)
(* TLV objects: type is self.type, bytes is self.bytes (the payload),      *)
(* subtype and value are the attributes the class keeps beside them; kind  *)
(* is the Python type of value, which is kept as a sequence of integers.   *)
(***************************************************************************)
\* TLV.__bytes__: the two-octet header TTTTTTTL LLLLLLLL, then the payload
TLV_bytes(tlv) ==
    <<(tlv.type * 2) + ((Len(tlv.bytes) \div 256) % 2), Len(tlv.bytes) % 256>>
        \o tlv.bytes

\* EndOfLLDPDUTLV(): type 0, empty payload
EndOfLLDPDUTLV ==
    [type |-> END_OF_LLDPDU, subtype |-> 0, kind |-> "none", value |-> <<>>,
     bytes |-> <<>>]

(***************************************************************************)
(* Python values the codec leans on.                                       *)
(***************************************************************************)
\* int.to_bytes(4, 'big') / struct.pack("!I", n) of 0 <= n < 2^32
U32(n) == <<(n \div 16777216) % 256, (n \div 65536) % 256, (n \div 256) % 256, n % 256>>

\* struct.unpack_from("!H", data, off) where off + 2 <= len(data)
UnpackH(data, off) == (At(data, off) * 256) + At(data, off + 1)

\* struct.unpack_from("!I", data, off) where off + 4 <= len(data)
UnpackI(data, off) ==
    (At(data, off) * 16777216) + (At(data, off + 1) * 65536)
        + (At(data, off + 2) * 256) + At(data, off + 3)

\* a | b on non-negative integers
RECURSIVE BitOr(_, _)
BitOr(a, b) ==
    IF a = 0 THEN b
    ELSE IF b = 0 THEN a
    ELSE (IF (a % 2) + (b % 2) > 0 THEN 1 ELSE 0) + (2 * BitOr(a \div 2, b \div 2))

\* bytes.decode('utf-8') succeeds: the strict UTF-8 of Python 3 (no overlong
\* forms, no surrogates, nothing above U+10FFFF).  A continuation octet is
\* one in 0x80..0xBF; the text is valid when it does not start with one and
\* every other octet is a lead octet followed by exactly the continuation
\* octets it announces, the first of them in the range its lead allows.
Cont(b) == b >= 128 /\ b <= 191

\* the number of continuation octets the lead octet b announces, -1 for an
\* octet that is no lead octet
Follows(b) ==
    IF b < 128 THEN 0
    ELSE IF b >= 194 /\ b <= 223 THEN 1
    ELSE IF b >= 224 /\ b <= 239 THEN 2
    ELSE IF b >= 240 /\ b <= 244 THEN 3
    ELSE -1

Utf8Valid(s) ==
    \A i \in 1..Len(s) :
        LET b == s[i]
            n == Follows(b)
        IN  IF Cont(b) THEN i > 1
            ELSE /\ n >= 0
                 /\ i + n <= Len(s)
                 /\ \A k \in 1..n : Cont(s[i + k])
                 /\ (i + n < Len(s) => ~Cont(s[i + n + 1]))
                 /\ (b = 224 => s[i + 1] >= 160)
                 /\ (b = 237 => s[i + 1] <= 159)
                 /\ (b = 240 => s[i + 1] >= 144)
                 /\ (b = 244 => s[i + 1] <= 143)

\* len() of the str whose UTF-8 encoding is s: its number of code points
StrLen(s) == Cardinality({i \in 1..Len(s) : ~Cont(s[i])})

(***************************************************************************)
(* The identifiers of a Chassis ID / Port ID: bytes, an ip_address or a    *)
(* str (kept as its UTF-8 octets).                                         *)
(***************************************************************************)
BytesId(octets) == [kind |-> "bytes", octets |-> octets]
StrId(octets) == [kind |-> "str", octets |-> octets]
IPv4Id(octets) == [kind |-> "IPv4Address", octets |-> octets]
IPv6Id(octets) == [kind |-> "IPv6Address", octets |-> octets]

\* len(id) as the constructors take it
IdLen(id) == IF id.kind = "str" THEN StrLen(id.octets) ELSE Len(id.octets)

\* ipaddress.ip_address(packed): 4 octets make an IPv4Address, 16 an
\* IPv6Address, anything else is a ValueError (version 0 here)
IpVersion(packed) ==
    IF Len(packed) = 4 THEN 4 ELSE IF Len(packed) = 16 THEN 6 ELSE 0
IpAddress(packed) == IF Len(packed) = 4 THEN IPv4Id(packed) ELSE IPv6Id(packed)

\* the payload ChassisIdTLV.__init__ / PortIdTLV.__init__ build from subtype and id
IdPayload(subtype, id) ==
    IF id.kind = "IPv4Address" THEN <<subtype, 1>> \o id.octets
    ELSE IF id.kind = "IPv6Address" THEN <<subtype, 2>> \o id.octets
    ELSE <<subtype>> \o id.octets

\* the subtypes of ChassisIdTLV.Subtype and PortIdTLV.Subtype
MAC_ADDRESS == 4
NETWORK_ADDRESS == 5
INTERFACE_NAME == 6

\* ChassisIdTLV(subtype, id)
ChassisIdTLV(subtype, id) ==
    IF subtype = MAC_ADDRESS /\ IdLen(id) # 6 THEN Raised("ValueError")
    ELSE Returned([type |-> CHASSIS_ID, subtype |-> subtype, kind |-> id.kind,
                   value |-> id.octets, bytes |-> IdPayload(subtype, id)])

\* PortIdTLV(subtype, id): the same shape as ChassisIdTLV, type 2
PortIdTLV(subtype, id) ==
    IF subtype = MAC_ADDRESS /\ IdLen(id) # 6 THEN Raised("ValueError")
    ELSE Returned([type |-> PORT_ID, subtype |-> subtype, kind |-> id.kind,
                   value |-> id.octets, bytes |-> IdPayload(subtype, id)])

\* TTLTLV(ttl) for ttl >= 0
TTLTLV(ttl) ==
    IF ttl > 65535 THEN Raised("ValueError")
    ELSE Returned([type |-> TTL, subtype |-> 0, kind |-> "int", value |-> <<ttl>>,
                   bytes |-> U16(ttl)])

\* PortDescriptionTLV(description), the str given by its UTF-8 octets
PortDescriptionTLV(description) ==
    Returned([type |-> PORT_DESCRIPTION, subtype |-> 0, kind |-> "str",
              value |-> description, bytes |-> description])

\* SystemNameTLV(name)
SystemNameTLV(name) ==
    Returned([type |-> SYSTEM_NAME, subtype |-> 0, kind |-> "str", value |-> name,
              bytes |-> name])

\* SystemDescriptionTLV(description)
SystemDescriptionTLV(description) ==
    Returned([type |-> SYSTEM_DESCRIPTION, subtype |-> 0, kind |-> "str",
              value |-> description, bytes |-> description])

SystemCapabilitiesTLV_Unchecked(supported, enabled) ==
    Returned([type |-> SYSTEM_CAPABILITIES, subtype |-> 0, kind |-> "int",
              value |-> <<supported, enabled>>,
              bytes |-> U16(supported) \o U16(enabled)])

\* SystemCapabilitiesTLV(supported, enabled), both in 0..65535.  value is
\* enabled | (supported << 16), a number of 32 bits that is kept as its two halves
\* of 16 bits, the upper first; bytes is value.to_bytes(4, 'big'), the two halves
\* in that order
SystemCapabilitiesTLV(supported, enabled) ==
    IF BitOr(enabled, supported) # supported THEN Raised("ValueError")
    ELSE Returned([type |-> SYSTEM_CAPABILITIES, subtype |-> 0, kind |-> "int",
                   value |-> <<supported, enabled>>,
                   bytes |-> U16(supported) \o U16(enabled)])

\* ManagementAddressTLV(address, interface_number, ifsubtype, oid); oid = <<>>
\* stands for None as well as for b"", which encode alike.  value keeps the
\* attributes value, ifnum and oid as address octets, <<ifnum>> and oid in a row
ManagementAddressTLV(address, interface_number, ifsubtype, oid) ==
    LET addr_subtype == IF address.kind = "IPv4Address" THEN 1 ELSE 2
        max_prefixlen == IF address.kind = "IPv4Address" THEN 32 ELSE 128
    IN  Returned([type |-> MANAGEMENT_ADDRESS, subtype |-> ifsubtype,
                  kind |-> address.kind,
                  value |-> address.octets \o <<interface_number>> \o oid,
                  bytes |-> <<(max_prefixlen \div 8) + 1, addr_subtype>>
                            \o address.octets
                            \o <<ifsubtype>> \o U32(interface_number)
                            \o <<Len(oid)>> \o oid])

\* OrganizationallySpecificTLV(oui, subtype, value), all three byte strings, subtype
\* of one octet
OrganizationallySpecificTLV(oui, subtype, value) ==
    Returned([type |-> ORGANIZATIONALLY_SPECIFIC, subtype |-> subtype[1],
              kind |-> "bytearray", value |-> oui \o value, bytes |-> oui \o subtype \o value])

(***************************************************************************)
(* The from_bytes of the TLV classes.  data is one whole record: header    *)
(* and payload.                                                            *)
(***************************************************************************)
\* (data[i] >> 1) & 0x7F
HeaderType(data, i) == (At(data, i) \div 2) % 128

\* ((data[i] & 1) << 8) | data[i + 1]
HeaderLen(data, i) == ((At(data, i) % 2) * 256) + At(data, i + 1)

\* the three checks every from_bytes starts with: TRUE when one of them raises
BadHeader(data, type) ==
    \/ Len(data) < 2
    \/ HeaderType(data, 0) # type
    \/ Len(data) # HeaderLen(data, 0) + 2

\* the constructor of the class whose type tag is type
IdTLV(type, subtype, id) ==
    IF type = CHASSIS_ID THEN ChassisIdTLV(subtype, id) ELSE PortIdTLV(subtype, id)

\* ChassisIdTLV.from_bytes, for the class whose type tag is type
IdFromBytes(type, data) ==
    IF BadHeader(data, type) THEN Raised("ValueError")
    ELSE IF Len(data) < 3 THEN Raised("IndexError")
    ELSE LET addr_subtype == At(data, 2)
             packed == Slice(data, 4, Len(data))
             text == Slice(data, 3, Len(data))
         IN  IF addr_subtype = MAC_ADDRESS
             THEN IF HeaderLen(data, 0) # 7 THEN Raised("ValueError")
                  ELSE IdTLV(type, addr_subtype, BytesId(text))
             ELSE IF addr_subtype = NETWORK_ADDRESS
             THEN IF IpVersion(packed) = 0 THEN Raised("ValueError")
                  ELSE IF At(data, 3) = 1 /\ IpVersion(packed) # 4
                       THEN Raised("ValueError")
                  ELSE IF At(data, 3) = 2 /\ IpVersion(packed) # 6
                       THEN Raised("ValueError")
                  ELSE IdTLV(type, addr_subtype, IpAddress(packed))
             ELSE IF addr_subtype \notin 1..7 THEN Raised("ValueError")
             \* UnicodeDecodeError is a ValueError
             ELSE IF ~Utf8Valid(text) THEN Raised("ValueError")
             ELSE IdTLV(type, addr_subtype, StrId(text))

ChassisIdTLV_from_bytes(data) == IdFromBytes(CHASSIS_ID, data)

PortIdTLV_from_bytes(data) == IdFromBytes(PORT_ID, data)

TTLTLV_from_bytes(data) ==
    IF BadHeader(data, TTL) THEN Raised("ValueError")
    ELSE IF HeaderLen(data, 0) # 2 THEN Raised("ValueError")
    ELSE TTLTLV(UnpackH(data, 2))

\* the constructor of the string TLV class whose type tag is type
StringTLV(type, text) ==
    IF type = PORT_DESCRIPTION THEN PortDescriptionTLV(text)
    ELSE IF type = SYSTEM_NAME THEN SystemNameTLV(text)
    ELSE SystemDescriptionTLV(text)

\* the from_bytes of the three string TLVs
StringFromBytes(type, data) ==
    IF BadHeader(data, type) THEN Raised("ValueError")
    ELSE IF ~Utf8Valid(Slice(data, 2, Len(data))) THEN Raised("ValueError")
    ELSE StringTLV(type, Slice(data, 2, Len(data)))

PortDescriptionTLV_from_bytes(data) ==
    StringFromBytes(PORT_DESCRIPTION, data)

SystemNameTLV_from_bytes(data) == StringFromBytes(SYSTEM_NAME, data)

SystemDescriptionTLV_from_bytes(data) ==
    StringFromBytes(SYSTEM_DESCRIPTION, data)

\* struct.unpack_from raises struct.error on a buffer that is too short
SystemCapabilitiesTLV_from_bytes(data) ==
    IF BadHeader(data, SYSTEM_CAPABILITIES) THEN Raised("ValueError")
    ELSE IF Len(data) < 6 THEN Raised("struct.error")
    ELSE SystemCapabilitiesTLV(UnpackH(data, 2), UnpackH(data, 4))

ManagementAddressTLV_from_bytes(data) ==
    IF BadHeader(data, MANAGEMENT_ADDRESS) THEN Raised("ValueError")
    ELSE IF Len(data) < 3 THEN Raised("IndexError")
    ELSE LET addr_len == At(data, 2) - 1
         IN  IF 9 + addr_len >= Len(data) THEN Raised("IndexError")
             ELSE LET oid_len == At(data, 9 + addr_len)
                      packed == Slice(data, 4, 4 + addr_len)
                  IN  IF IpVersion(packed) = 0 THEN Raised("ValueError")
                      ELSE IF At(data, 4 + addr_len) \notin 1..3
                           THEN Raised("ValueError")
                      ELSE ManagementAddressTLV(
                               IpAddress(packed),
                               UnpackI(data, 5 + addr_len),
                               At(data, 4 + addr_len),
                               Slice(data, 10 + addr_len, 10 + addr_len + oid_len))

OrganizationallySpecificTLV_from_bytes(data) ==
    IF BadHeader(data, ORGANIZATIONALLY_SPECIFIC) THEN Raised("ValueError")
    ELSE IF Len(data) < 6 THEN Raised("IndexError")
    ELSE OrganizationallySpecificTLV(Slice(data, 2, 5), <<At(data, 5)>>,
                                     Slice(data, 6, Len(data)))

(***************************************************************************)
(* The state.  tlvs and length are the LLDPDU's self.__tlvs and            *)
(* self.length; op is the last call made on it (its name, its argument,    *)
(* the LLDPDU it was made on, what it raised and what it returned).  data, *)
(* cur_idx, pc and exc are from_bytes' buffer, its index, the place it is  *)
(* at and the exception it raised; from_bytes builds its LLDPDU in tlvs    *)
(* and length.                                                             *)
(***************************************************************************)
VARIABLES tlvs, length, op, data, cur_idx, pc, exc

(***************************************************************************)
(* args is the argument of the call under study where op has no place for  *)
(* it.  The rest is the agent: mac_address, interface_name,                *)
(* announce_interval, socket and logger are LLDPAgent's fields (socket is  *)
(* "open" or "closed", sent the frames handed to socket.send, logger the   *)
(* calls made to logger.log, each with the frame it came from); run_once,  *)
(* received, t_previous, t_now and frame are run's argument and locals     *)
(* (frame is its data); at is the place run is at, raising the exception   *)
(* that is propagating out of it, interrupted whether a KeyboardInterrupt  *)
(* arrived; clock is what time.time() returns, delivered the number of     *)
(* frames the link has handed to recv.                                     *)
(***************************************************************************)
VARIABLES args, mac_address, interface_name, announce_interval, socket, sent,
          logger, run_once, received, t_previous, t_now, frame, at, raising,
          interrupted, clock, delivered

lldpduVars == <<tlvs, length, op, data, cur_idx, pc, exc>>

config == <<mac_address, interface_name, announce_interval, run_once>>

agentVars == <<mac_address, interface_name, announce_interval, socket, sent,
               logger, run_once, received, t_previous, t_now, frame, at,
               raising, interrupted, clock, delivered>>

vars == <<lldpduVars, args, agentVars>>

\* the LLDPDU object
Self == [tlvs |-> tlvs, length |-> length]

\* LLDPDU.__init__ without arguments
EmptyLLDPDU == [tlvs |-> <<>>, length |-> 0]

(***************************************************************************)
(* LLDPDU.append                                                           *)
(***************************************************************************)
\* any(isinstance(x, cls) for x in self.__tlvs), cls the class of that type
Has(s, type) == \E i \in 1..Len(s) : s[i].type = type

\* a bug: the check for a second Chassis ID TLV left out
ChassisRejected_Never(self) == FALSE

\* a bug: a TTL TLV admitted without a Port ID TLV before it
TTLRejected_NoPortCheck(self) ==
    Has(self.tlvs, TTL) \/ ~Has(self.tlvs, CHASSIS_ID)

\* a bug: the size check made with >= in place of >
SizeExceeded_AtCeiling(self, tlv) ==
    Len(TLV_bytes(tlv)) + self.length >= MaxLLDPDUSize

\* len(tlv.__bytes__()) + self.length > 1500
SizeExceeded(self, tlv) == Len(TLV_bytes(tlv)) + self.length > MaxLLDPDUSize

\* a bug: the check for an End Of LLDPDU TLV left out
AfterEnd_Never(self) == FALSE

\* any(isinstance(x, EndOfLLDPDUTLV) for x in self.__tlvs)
AfterEnd(self) == Has(self.tlvs, END_OF_LLDPDU)

\* the condition under which a Chassis ID TLV is refused
ChassisRejected(self) == Has(self.tlvs, CHASSIS_ID)

\* the condition under which a Port ID TLV is refused
PortRejected(self) == Has(self.tlvs, PORT_ID) \/ ~Has(self.tlvs, CHASSIS_ID)

\* the condition under which a TTL TLV is refused
TTLRejected(self) ==
    Has(self.tlvs, TTL) \/ ~Has(self.tlvs, CHASSIS_ID) \/ ~Has(self.tlvs, PORT_ID)

\* the condition under which a TLV of any other type is refused
OtherRejected(self) ==
    ~Has(self.tlvs, CHASSIS_ID) \/ ~Has(self.tlvs, PORT_ID) \/ ~Has(self.tlvs, TTL)

\* the checks of append, in the order the code makes them: TRUE when it raises
AppendRaises(self, tlv) ==
    IF SizeExceeded(self, tlv) THEN TRUE
    ELSE IF AfterEnd(self) THEN TRUE
    ELSE IF tlv.type = CHASSIS_ID THEN ChassisRejected(self)
    ELSE IF tlv.type = PORT_ID THEN PortRejected(self)
    ELSE IF tlv.type = TTL THEN TTLRejected(self)
    ELSE OtherRejected(self)

\* a bug: the length counted before the checks are made
append_CountsFirst(self, tlv) ==
    IF AppendRaises(self, tlv)
    THEN [exc |-> "ValueError",
          self |-> [self EXCEPT !.length = @ + Len(TLV_bytes(tlv))]]
    ELSE [exc |-> "none",
          self |-> [tlvs |-> Append(self.tlvs, tlv),
                    length |-> self.length + Len(TLV_bytes(tlv))]]

\* a bug: complete() that does not look for the TTL TLV
complete_NoTTL(self) == Has(self.tlvs, CHASSIS_ID) /\ Has(self.tlvs, PORT_ID)

\* the two assignments that end append
\* a bug: the counter grows by the payload of the record, without its header
AppendStore_CountsPayload(self, tlv) ==
    [tlvs |-> Append(self.tlvs, tlv),
     length |-> self.length + Len(TLV_bytes(tlv)) - 2]

AppendStore(self, tlv) ==
    [tlvs |-> Append(self.tlvs, tlv), length |-> self.length + Len(TLV_bytes(tlv))]

\* append(self, tlv): the exception raised ("none" when it returned) and the
\* LLDPDU the call leaves
append(self, tlv) ==
    IF AppendRaises(self, tlv)
    THEN [exc |-> "ValueError", self |-> self]
    ELSE [exc |-> "none", self |-> AppendStore(self, tlv)]

\* LLDPDU.complete
complete(self) ==
    Has(self.tlvs, CHASSIS_ID) /\ Has(self.tlvs, PORT_ID) /\ Has(self.tlvs, TTL)

(***************************************************************************)
(* The TLVs handed to append.  The two long identifiers and the three      *)
(* organizationally specific TLVs are sized so that an LLDPDU of 1498,     *)
(* 1499, 1500 and (refused) 1501 octets is built in four records.          *)
(***************************************************************************)
\* an identifier of n octets of ASCII
Text(n) == StrId(Fill(n, 97))

\* an organizationally specific TLV whose encoding is n octets long
OrgOfSize(n) == OrganizationallySpecificTLV(<<0, 18, 15>>, <<1>>, Fill(n - 6, 0)).tlv

AppendInputs ==
    { EndOfLLDPDUTLV,
      ChassisIdTLV(MAC_ADDRESS, BytesId(<<2, 4, 223, 136, 162, 180>>)).tlv,
      ChassisIdTLV(INTERFACE_NAME, Text(510)).tlv,
      PortIdTLV(INTERFACE_NAME, StrId(<<101, 116, 104, 48>>)).tlv,
      PortIdTLV(INTERFACE_NAME, Text(510)).tlv,
      TTLTLV(60).tlv,
      PortDescriptionTLV(<<>>).tlv,
      SystemCapabilitiesTLV(6, 4).tlv,
      OrgOfSize(468), OrgOfSize(469), OrgOfSize(470), OrgOfSize(471) }

(***************************************************************************)
(* The assembler: any sequence of append and complete calls on an LLDPDU   *)
(* that starts empty.                                                      *)
(***************************************************************************)
NoCall == [name |-> "none", tlv |-> NoTLV, on |-> EmptyLLDPDU, exc |-> "none",
           ret |-> FALSE]

\* from_bytes is not running
ParserIdle == data = <<>> /\ cur_idx = 0 /\ pc = "idle" /\ exc = "none"

\* a MAC address and an interface name as an agent is given them
LocalMAC == <<2, 4, 223, 136, 162, 180>>

PeerMAC == <<2, 4, 223, 136, 162, 181>>

Eth0 == <<101, 116, 104, 48>>

\* LLDPAgent.__init__ with the defaults: run has not been called
AgentIdle ==
    /\ mac_address = LocalMAC
    /\ interface_name = Eth0
    /\ announce_interval = 1
    /\ socket = "open"
    /\ sent = <<>>
    /\ logger = <<>>
    /\ run_once = FALSE
    /\ received = FALSE
    /\ t_previous = 0
    /\ t_now = 0
    /\ frame = <<>>
    /\ at = "idle"
    /\ raising = "none"
    /\ interrupted = FALSE
    /\ clock = 0
    /\ delivered = 0

Init ==
    /\ tlvs = <<>>
    /\ length = 0
    /\ op = NoCall
    /\ ParserIdle
    /\ args = <<>>
    /\ AgentIdle

\* a call lldpdu.append(tlv)
CallAppend(tlv) ==
    LET r == append(Self, tlv)
    IN  /\ Len(r.self.tlvs) <= MaxTlvs
        /\ tlvs' = r.self.tlvs
        /\ length' = r.self.length
        /\ op' = [name |-> "append", tlv |-> tlv, on |-> Self, exc |-> r.exc,
                  ret |-> FALSE]
        /\ UNCHANGED <<data, cur_idx, pc, exc, args, agentVars>>

\* a call lldpdu.complete()
CallComplete ==
    /\ op' = [name |-> "complete", tlv |-> NoTLV, on |-> Self, exc |-> "none",
              ret |-> complete(Self)]
    /\ UNCHANGED <<tlvs, length, data, cur_idx, pc, exc, args, agentVars>>

Next ==
    \/ \E tlv \in AppendInputs : CallAppend(tlv)
    \/ CallComplete

Spec == Init /\ [][Next]_vars

(***************************************************************************)
(* LLDPDU.__bytes__: the encodings of the records, in insertion order.     *)
(***************************************************************************)
RECURSIVE Concat(_)
Concat(ss) == IF ss = <<>> THEN <<>> ELSE Head(ss) \o Concat(Tail(ss))

LLDPDU_bytes(self) == Concat([i \in 1..Len(self.tlvs) |-> TLV_bytes(self.tlvs[i])])

(***************************************************************************)
(* LLDPDU.from_bytes.  One pass of its while loop is one step; pc is       *)
(* "loop" at the loop test, "returned" after the return, "raised" after an *)
(* exception left the function (exc names it).                             *)
(***************************************************************************)
\* a bug: a record of an unknown type passed through as an opaque TLV
ParseTLV_PassUnknown(tlv_type, chunk) ==
    IF tlv_type = END_OF_LLDPDU THEN Returned(EndOfLLDPDUTLV)
    ELSE IF tlv_type = CHASSIS_ID THEN ChassisIdTLV_from_bytes(chunk)
    ELSE IF tlv_type = PORT_ID THEN PortIdTLV_from_bytes(chunk)
    ELSE IF tlv_type = TTL THEN TTLTLV_from_bytes(chunk)
    ELSE IF tlv_type = PORT_DESCRIPTION THEN PortDescriptionTLV_from_bytes(chunk)
    ELSE IF tlv_type = SYSTEM_NAME THEN SystemNameTLV_from_bytes(chunk)
    ELSE IF tlv_type = SYSTEM_DESCRIPTION THEN SystemDescriptionTLV_from_bytes(chunk)
    ELSE IF tlv_type = SYSTEM_CAPABILITIES
         THEN SystemCapabilitiesTLV_from_bytes(chunk)
    ELSE IF tlv_type = MANAGEMENT_ADDRESS THEN ManagementAddressTLV_from_bytes(chunk)
    ELSE IF tlv_type = ORGANIZATIONALLY_SPECIFIC
         THEN OrganizationallySpecificTLV_from_bytes(chunk)
    ELSE Returned([type |-> tlv_type, subtype |-> 0, kind |-> "bytes",
                   value |-> Slice(chunk, 2, Len(chunk)),
                   bytes |-> Slice(chunk, 2, Len(chunk))])

\* the if / elif chain of the loop body: the TLV built from the record chunk,
\* or the exception raised (the last else raises ValueError)
ParseTLV(tlv_type, chunk) ==
    IF tlv_type = END_OF_LLDPDU THEN Returned(EndOfLLDPDUTLV)
    ELSE IF tlv_type = CHASSIS_ID THEN ChassisIdTLV_from_bytes(chunk)
    ELSE IF tlv_type = PORT_ID THEN PortIdTLV_from_bytes(chunk)
    ELSE IF tlv_type = TTL THEN TTLTLV_from_bytes(chunk)
    ELSE IF tlv_type = PORT_DESCRIPTION THEN PortDescriptionTLV_from_bytes(chunk)
    ELSE IF tlv_type = SYSTEM_NAME THEN SystemNameTLV_from_bytes(chunk)
    ELSE IF tlv_type = SYSTEM_DESCRIPTION THEN SystemDescriptionTLV_from_bytes(chunk)
    ELSE IF tlv_type = SYSTEM_CAPABILITIES
         THEN SystemCapabilitiesTLV_from_bytes(chunk)
    ELSE IF tlv_type = MANAGEMENT_ADDRESS THEN ManagementAddressTLV_from_bytes(chunk)
    ELSE IF tlv_type = ORGANIZATIONALLY_SPECIFIC
         THEN OrganizationallySpecificTLV_from_bytes(chunk)
    ELSE Raised("ValueError")

\* a bug: the records stored without append's checks
ParserAppend_Unchecked(self, tlv) == [exc |-> "none", self |-> AppendStore(self, tlv)]

\* lldpdu.append(tlv) as from_bytes calls it
ParserAppend(self, tlv) == append(self, tlv)

\* a bug: no break after the End Of LLDPDU TLV
AfterRecord_NoBreak(tlv_type) == "loop"

\* where the loop body leaves control: the End branch breaks out of the loop
\* to the return, every other branch goes back to the loop test
AfterRecord(tlv_type) == IF tlv_type = END_OF_LLDPDU THEN "returned" ELSE "loop"

\* the loop test
LoopTest(d, idx) == idx < Len(d) + 1

\* a call LLDPDU.from_bytes(d), up to the first loop test
CallFromBytes(d) ==
    /\ data' = d
    /\ cur_idx' = 0
    /\ tlvs' = <<>>
    /\ length' = 0
    /\ pc' = "loop"
    /\ UNCHANGED <<op, exc>>

\* from_bytes raises e
Raise(e) ==
    /\ pc' = "raised"
    /\ exc' = e
    /\ UNCHANGED <<tlvs, length, op, data, cur_idx>>

\* the loop test and, when it holds, one pass of the loop body
LoopPass ==
    /\ pc = "loop"
    /\ UNCHANGED <<args, agentVars>>
    /\ IF ~LoopTest(data, cur_idx)
       THEN /\ pc' = "returned"
            /\ UNCHANGED <<tlvs, length, op, data, cur_idx, exc>>
       ELSE IF cur_idx + 1 >= Len(data)
       \* data[cur_idx] or data[cur_idx + 1] is past the end of the buffer
       THEN Raise("IndexError")
       ELSE LET tlv_type == HeaderType(data, cur_idx)
                tlv_len == HeaderLen(data, cur_idx)
                chunk == Slice(data, cur_idx, cur_idx + tlv_len + 2)
                parsed == ParseTLV(tlv_type, chunk)
                r == ParserAppend(Self, parsed.tlv)
            IN  IF cur_idx + tlv_len + 2 > Len(data) THEN Raise("ValueError")
                ELSE IF parsed.exc # "none" THEN Raise(parsed.exc)
                ELSE /\ op' = [name |-> "append", tlv |-> parsed.tlv, on |-> Self,
                               exc |-> r.exc, ret |-> FALSE]
                     /\ tlvs' = r.self.tlvs
                     /\ length' = r.self.length
                     /\ IF r.exc # "none"
                        THEN /\ pc' = "raised"
                             /\ exc' = r.exc
                             /\ UNCHANGED cur_idx
                        ELSE /\ cur_idx' = cur_idx + tlv_len + 2
                             /\ pc' = AfterRecord(tlv_type)
                             /\ UNCHANGED exc
                     /\ UNCHANGED data

(***************************************************************************)
(* The buffers handed to from_bytes: rows of records, well formed or not.  *)
(***************************************************************************)
\* the most records of a buffer that is any row of records
MaxHead == 3
\* the most records that follow a ChassisId, PortId, TTL prefix
MaxTail == 2

\* all sequences of at most n elements of S
SeqsUpTo(S, n) == UNION {[1..k -> S] : k \in 0..n}

chassis == ChassisIdTLV(MAC_ADDRESS, BytesId(<<2, 4, 223, 136, 162, 180>>)).tlv
port == PortIdTLV(INTERFACE_NAME, StrId(<<101, 116, 104, 48>>)).tlv
ttl60 == TTLTLV(60).tlv
bigChassis == ChassisIdTLV(INTERFACE_NAME, Text(510)).tlv
bigPort == PortIdTLV(INTERFACE_NAME, Text(510)).tlv

\* optional TLVs, one of each class
OptionalTLVs ==
    { PortDescriptionTLV(<<>>).tlv,
      SystemNameTLV(<<115, 119>>).tlv,
      SystemDescriptionTLV(<<195, 169>>).tlv,
      SystemCapabilitiesTLV(6, 4).tlv,
      ManagementAddressTLV(IPv4Id(<<192, 0, 2, 1>>), 4, 2, <<0, 8, 21>>).tlv,
      OrgOfSize(7) }

\* a TTL record of three octets, which TTLTLV.from_bytes refuses, a record of
\* the unknown type 9, a record cut short and a lone octet
BadRecords ==
    { <<6, 3, 0, 0, 60>>,
      <<18, 0>>,
      <<8, 5, 65>>,
      <<255>> }

\* a record of type End Of LLDPDU that declares one octet of payload
EndWithPayload == <<0, 1, 7>>

\* the records a buffer is made of
Records ==
    {TLV_bytes(t) : t \in {chassis, port, ttl60, EndOfLLDPDUTLV} \cup OptionalTLVs}
        \cup {EndWithPayload} \cup BadRecords

\* the records that come after the long prefix of 1030 octets
BigRecords ==
    {TLV_bytes(t) : t \in {OrgOfSize(468), OrgOfSize(469), OrgOfSize(470),
                           OrgOfSize(471), EndOfLLDPDUTLV}}

Prefix == <<TLV_bytes(chassis), TLV_bytes(port), TLV_bytes(ttl60)>>
BigPrefix == <<TLV_bytes(bigChassis), TLV_bytes(bigPort), TLV_bytes(ttl60)>>

ParseInputs ==
    {Concat(row) : row \in SeqsUpTo(Records, MaxHead)}
        \cup {Concat(Prefix \o row) : row \in SeqsUpTo(Records, MaxTail)}
        \cup {Concat(BigPrefix \o row) : row \in SeqsUpTo(BigRecords, MaxTail)}

\* from_bytes called once on any of the buffers
\* from_bytes called on d by itself
ParseBuffer(d) == CallFromBytes(d) /\ UNCHANGED <<args, agentVars>>

NextParse ==
    \/ pc = "idle" /\ \E d \in ParseInputs : ParseBuffer(d)
    \/ LoopPass

SpecParse == Init /\ [][NextParse]_vars

(***************************************************************************)
(* The round trip: an LLDPDU is built by appends, and once it is complete  *)
(* from_bytes is called on its __bytes__().  args keeps the records of the *)
(* LLDPDU that was encoded.                                                *)
(***************************************************************************)
CallRoundTrip ==
    /\ pc = "idle"
    /\ complete(Self)
    /\ args' = tlvs
    /\ CallFromBytes(LLDPDU_bytes(Self))
    /\ UNCHANGED agentVars

NextRoundTrip ==
    \/ pc = "idle" /\ \E tlv \in AppendInputs : CallAppend(tlv)
    \/ CallRoundTrip
    \/ LoopPass

SpecRoundTrip == Init /\ [][NextRoundTrip]_vars

(***************************************************************************)
(* The agent.  Frames are byte strings: six octets of destination, six of  *)
(* source, two of ethertype, then the LLDPDU.                              *)
(***************************************************************************)
\* LLDPDU.__init__(*tlvs): every argument goes through append
RECURSIVE AppendAll(_, _)
AppendAll(self, ts) ==
    IF ts = <<>> THEN [exc |-> "none", self |-> self]
    ELSE LET r == append(self, Head(ts))
         IN  IF r.exc # "none" THEN r ELSE AppendAll(r.self, Tail(ts))

LLDPDU(ts) == AppendAll(EmptyLLDPDU, ts)

\* the ethertype of LLDP, 0x88CC
LLDP_ETHERTYPE == 35020

NearestBridge == <<1, 128, 194, 0, 0, 0>>
NearestNonTPMRBridge == <<1, 128, 194, 0, 0, 3>>
NearestCustomerBridge == <<1, 128, 194, 0, 0, 14>>

\* struct.pack's "6s": six octets, cut or filled with zeros
Pack6s(b) == [i \in 1..6 |-> IF i <= Len(b) THEN b[i] ELSE 0]

\* struct.pack('!6s6sH', dst, src, ethertype) followed by the payload
EthFrame(dst, src, ethertype, payload) ==
    Pack6s(dst) \o Pack6s(src) \o U16(ethertype) \o payload

\* the frame announce builds: exc is what it raises before it has one
AnnounceFrame_WithEnd(mac, ifname) ==
    [exc |-> "none",
     frame |-> EthFrame(NearestCustomerBridge, mac, LLDP_ETHERTYPE,
                        TLV_bytes(ChassisIdTLV(MAC_ADDRESS, BytesId(mac)).tlv)
                        \o TLV_bytes(PortIdTLV(INTERFACE_NAME, StrId(ifname)).tlv)
                        \o TLV_bytes(TTLTLV(60).tlv)
                        \o TLV_bytes(EndOfLLDPDUTLV))]

AnnounceFrame(mac, ifname) ==
    LET chassis_tlv == ChassisIdTLV(MAC_ADDRESS, BytesId(mac))
        port_tlv == PortIdTLV(INTERFACE_NAME, StrId(ifname))
        ttlive_tlv == TTLTLV(60)
        lldpdu == LLDPDU(<<chassis_tlv.tlv, port_tlv.tlv, ttlive_tlv.tlv>>)
    IN  IF chassis_tlv.exc # "none" THEN [exc |-> chassis_tlv.exc, frame |-> <<>>]
        ELSE IF port_tlv.exc # "none" THEN [exc |-> port_tlv.exc, frame |-> <<>>]
        ELSE IF ttlive_tlv.exc # "none" THEN [exc |-> ttlive_tlv.exc, frame |-> <<>>]
        ELSE IF lldpdu.exc # "none" THEN [exc |-> lldpdu.exc, frame |-> <<>>]
        ELSE [exc |-> "none",
              frame |-> EthFrame(NearestCustomerBridge, mac, LLDP_ETHERTYPE,
                                 LLDPDU_bytes(lldpdu.self))]

\* the three checks run makes on a frame it received
DestRejected_Never(d) == FALSE

DestRejected(d) ==
    /\ Slice(d, 0, 6) # NearestBridge
    /\ Slice(d, 0, 6) # NearestNonTPMRBridge
    /\ Slice(d, 0, 6) # NearestCustomerBridge

SrcRejected_Never(d, mac) == FALSE

SrcRejected(d, mac) == Slice(d, 6, 12) = mac

EtherRejected(d) == UnpackH(d, 12) # LLDP_ETHERTYPE

\* what run does with the frame d: the exception struct.unpack_from raises on
\* a frame too short for the field it reads, "continue" for a frame one of the
\* checks refuses, "parse" for a frame that passes the three
FrameVerdict(d, mac) ==
    IF Len(d) < 6 THEN "struct.error"
    ELSE IF DestRejected(d) THEN "continue"
    ELSE IF Len(d) < 12 THEN "struct.error"
    ELSE IF SrcRejected(d, mac) THEN "continue"
    ELSE IF Len(d) < 14 THEN "struct.error"
    ELSE IF EtherRejected(d) THEN "continue"
    ELSE "parse"

\* the test of line 135
Due_Never(now, previous, interval) == FALSE

\* a bug: an announce is due as soon as the interval has passed
Due_AtInterval(now, previous, interval) == now - previous >= interval

Due(now, previous, interval) == now - previous > interval

\* the finally clause: the socket after run has ended with e propagating
Close_OnReturnOnly(e) == IF e = "none" THEN "closed" ELSE "open"

Close(e) == "closed"

\* run(run_once) is called: lines 88 and 89
Run ==
    /\ at = "idle"
    /\ received' = FALSE
    /\ t_previous' = clock
    /\ at' = "test"
    /\ UNCHANGED <<lldpduVars, args, config, socket, sent, logger, t_now, frame,
                   raising, interrupted, clock, delivered>>

\* the loop test of line 91
Test ==
    /\ at = "test"
    /\ at' = IF ~run_once \/ ~received THEN "select" ELSE "finally"
    /\ UNCHANGED <<lldpduVars, args, config, socket, sent, logger, received,
                   t_previous, t_now, frame, raising, interrupted, clock, delivered>>

\* the clock is followed up to MaxClock; the link delivers at most MaxFrames
\* frames; a wait that times out returns at most MaxLate after its timeout
MaxClock == 8
MaxFrames == 2
MaxLate == 1

\* select returns an empty list: announce_interval has passed, or a little more
SelectTimeout ==
    /\ at = "select"
    /\ \E late \in 0..MaxLate :
          /\ clock + announce_interval + late <= MaxClock
          /\ clock' = clock + announce_interval + late
    /\ at' = "cadence"
    /\ UNCHANGED <<lldpduVars, args, config, socket, sent, logger, received,
                   t_previous, t_now, frame, raising, interrupted, delivered>>

\* select returns the socket before the timeout and recv returns the frame f
SelectFrame(f) ==
    /\ at = "select"
    /\ delivered < MaxFrames
    /\ \E wait \in 0..announce_interval :
          /\ clock + wait <= MaxClock
          /\ clock' = clock + wait
    /\ frame' = f
    /\ delivered' = delivered + 1
    /\ at' = "check"
    /\ UNCHANGED <<lldpduVars, args, config, socket, sent, logger, received,
                   t_previous, t_now, raising, interrupted>>

\* select or recv raises
RecvFails ==
    /\ at = "select"
    /\ raising' = "OSError"
    /\ at' = "finally"
    /\ UNCHANGED <<lldpduVars, args, config, socket, sent, logger, received,
                   t_previous, t_now, frame, interrupted, clock, delivered>>

\* lines 100 to 127: the three checks, and the call of from_bytes on what
\* follows the header
Check ==
    /\ at = "check"
    /\ LET verdict == FrameVerdict(frame, mac_address)
       IN  IF verdict = "parse"
           THEN /\ CallFromBytes(Slice(frame, 14, Len(frame)))
                /\ at' = "parse"
                /\ UNCHANGED raising
           ELSE IF verdict = "continue"
           THEN /\ at' = "test"
                /\ UNCHANGED <<lldpduVars, raising>>
           ELSE /\ at' = "finally"
                /\ raising' = verdict
                /\ UNCHANGED lldpduVars
    /\ UNCHANGED <<args, config, socket, sent, logger, received, t_previous,
                   t_now, frame, interrupted, clock, delivered>>

\* from_bytes returned and the pass goes on to the cadence check with the
\* frame not logged
Parsed_NotLogged ==
    /\ at = "parse"
    /\ pc = "returned"
    /\ received' = TRUE
    /\ at' = "cadence"
    /\ tlvs' = <<>>
    /\ length' = 0
    /\ op' = NoCall
    /\ data' = <<>>
    /\ cur_idx' = 0
    /\ pc' = "idle"
    /\ exc' = "none"
    /\ UNCHANGED <<args, config, socket, sent, logger, t_previous, t_now, frame,
                   raising, interrupted, clock, delivered>>

\* from_bytes returned: lines 130 and 131.  The LLDPDU is dropped
Parsed ==
    /\ at = "parse"
    /\ pc = "returned"
    /\ logger' = Append(logger, [frame |-> frame, lldpdu |-> tlvs])
    /\ received' = TRUE
    /\ at' = "cadence"
    /\ tlvs' = <<>>
    /\ length' = 0
    /\ op' = NoCall
    /\ data' = <<>>
    /\ cur_idx' = 0
    /\ pc' = "idle"
    /\ exc' = "none"
    /\ UNCHANGED <<args, config, socket, sent, t_previous, t_now, frame, raising,
                   interrupted, clock, delivered>>

\* from_bytes raised: no except clause of run takes it
ParseFailed ==
    /\ at = "parse"
    /\ pc = "raised"
    /\ raising' = exc
    /\ at' = "finally"
    /\ UNCHANGED <<lldpduVars, args, config, socket, sent, logger, received,
                   t_previous, t_now, frame, interrupted, clock, delivered>>

\* lines 134 and 135
Cadence ==
    /\ at = "cadence"
    /\ t_now' = clock
    /\ at' = IF Due(clock, t_previous, announce_interval) THEN "announce" ELSE "test"
    /\ UNCHANGED <<lldpduVars, args, config, socket, sent, logger, received,
                   t_previous, frame, raising, interrupted, clock, delivered>>

\* the interface names agents are given
InterfaceNames == {<<>>, Eth0}

\* what announce builds, for every agent there is
Announced ==
    [mac \in {LocalMAC}, ifname \in InterfaceNames |-> AnnounceFrame(mac, ifname)]

\* lines 136 and 137: announce sends its frame, or raises
Announce ==
    /\ at = "announce"
    /\ LET a == Announced[mac_address, interface_name]
       IN  IF a.exc = "none"
           THEN /\ sent' = Append(sent, a.frame)
                /\ t_previous' = t_now
                /\ at' = "test"
                /\ UNCHANGED raising
           ELSE /\ raising' = a.exc
                /\ at' = "finally"
                /\ UNCHANGED <<sent, t_previous>>
    /\ UNCHANGED <<lldpduVars, args, config, socket, logger, received, t_now,
                   frame, interrupted, clock, delivered>>

\* socket.send raises
SendFails ==
    /\ at = "announce"
    /\ raising' = "OSError"
    /\ at' = "finally"
    /\ UNCHANGED <<lldpduVars, args, config, socket, sent, logger, received,
                   t_previous, t_now, frame, interrupted, clock, delivered>>

\* the places of the try block
InTry == {"test", "select", "check", "parse", "cadence", "announce"}

\* a KeyboardInterrupt inside the try block: lines 139 and 140
Interrupt ==
    /\ at \in InTry
    /\ interrupted' = TRUE
    /\ at' = "finally"
    /\ UNCHANGED <<lldpduVars, args, config, socket, sent, logger, received,
                   t_previous, t_now, frame, raising, clock, delivered>>

\* lines 142 and 143, after which run returns or the exception goes on
Finally ==
    /\ at = "finally"
    /\ socket' = Close(raising)
    /\ at' = IF raising = "none" THEN "returned" ELSE "raised"
    /\ UNCHANGED <<lldpduVars, args, config, sent, logger, received, t_previous,
                   t_now, frame, raising, interrupted, clock, delivered>>

\* the LLDPDUs the frames of the link carry: one that ends with an End Of
\* LLDPDU record, what announce sends (which has none), one of an unknown type
Terminated == Concat(Prefix) \o TLV_bytes(EndOfLLDPDUTLV)
Unterminated == Concat(Prefix)
UnknownType == <<18, 0>>

\* the ethertype of IPv4
IPv4_ETHERTYPE == 2048

Broadcast == <<255, 255, 255, 255, 255, 255>>

\* the frames of the link: every header on a good LLDPDU, the other LLDPDUs
\* under a header that passes, and frames cut short inside the header
AgentFrames ==
    { EthFrame(dst, src, ethertype, Terminated) :
        dst \in {NearestBridge, NearestNonTPMRBridge, NearestCustomerBridge, Broadcast},
        src \in {LocalMAC, PeerMAC},
        ethertype \in {LLDP_ETHERTYPE, IPv4_ETHERTYPE} }
    \cup { EthFrame(NearestCustomerBridge, PeerMAC, LLDP_ETHERTYPE, p) :
             p \in {Unterminated, UnknownType} }
    \cup { Slice(EthFrame(NearestBridge, PeerMAC, LLDP_ETHERTYPE, <<>>), 0, n) :
             n \in {5, 11, 13} }

Intervals == {1, 2}

\* an agent as LLDPAgent.__init__ leaves it, and the argument of run
InitAgent ==
    /\ tlvs = <<>>
    /\ length = 0
    /\ op = NoCall
    /\ ParserIdle
    /\ args = <<>>
    /\ mac_address = LocalMAC
    /\ interface_name \in InterfaceNames
    /\ announce_interval \in Intervals
    /\ run_once \in BOOLEAN
    /\ socket = "open"
    /\ sent = <<>>
    /\ logger = <<>>
    /\ received = FALSE
    /\ t_previous = 0
    /\ t_now = 0
    /\ frame = <<>>
    /\ at = "idle"
    /\ raising = "none"
    /\ interrupted = FALSE
    /\ clock = 0
    /\ delivered = 0

NextAgent ==
    \/ Run
    \/ Test
    \/ SelectTimeout
    \/ \E f \in AgentFrames : SelectFrame(f)
    \/ RecvFails
    \/ Check
    \/ at = "parse" /\ LoopPass
    \/ Parsed
    \/ ParseFailed
    \/ Cadence
    \/ Announce
    \/ SendFails
    \/ Interrupt
    \/ Finally

SpecAgent == InitAgent /\ [][NextAgent]_vars

(***************************************************************************)
(* The agent on a silent link: run is called without run_once, no frame    *)
(* arrives, nothing interrupts it and the socket does not fail.  The loop  *)
(* is the only thread and select is given a timeout, so whatever step is   *)
(* next is taken in the end.                                               *)
(***************************************************************************)
InitSilent == InitAgent /\ ~run_once

NextSilent ==
    \/ Run
    \/ Test
    \/ SelectTimeout
    \/ Cadence
    \/ Announce

SpecSilent == InitSilent /\ [][NextSilent]_vars /\ WF_vars(NextSilent)

(***************************************************************************)
(* The system capabilities record by itself: args is a pair of bitmaps,    *)
(* supported and enabled, and either the constructor is called on them or  *)
(* from_bytes on the record that holds them.                               *)
(***************************************************************************)
\* bitmaps: none, single capabilities, two of them, the constructor's default,
\* bit 11 (which Capability does not name) alone and with bit 2, all sixteen bits
Bitmaps == {0, 1, 4, 5, 128, 2048, 2052, 65535}

InitCaps ==
    /\ tlvs = <<>>
    /\ length = 0
    /\ op = NoCall
    /\ ParserIdle
    /\ args \in {<<supported, enabled>> : supported \in Bitmaps, enabled \in Bitmaps}
    /\ AgentIdle

\* SystemCapabilitiesTLV(supported, enabled)
CallSystemCapabilitiesTLV ==
    /\ op = NoCall
    /\ LET r == SystemCapabilitiesTLV(args[1], args[2])
       IN  op' = [name |-> "SystemCapabilitiesTLV", tlv |-> r.tlv,
                  on |-> EmptyLLDPDU, exc |-> r.exc, ret |-> FALSE]
    /\ UNCHANGED <<tlvs, length, data, cur_idx, pc, exc, args, agentVars>>

\* the record of type 7 and length 4 that holds the two bitmaps
CapabilitiesRecord(supported, enabled) ==
    <<SYSTEM_CAPABILITIES * 2, 4>> \o U16(supported) \o U16(enabled)

\* SystemCapabilitiesTLV.from_bytes(data) on that record
CallSystemCapabilitiesTLV_from_bytes ==
    /\ op = NoCall
    /\ data' = CapabilitiesRecord(args[1], args[2])
    /\ LET r == SystemCapabilitiesTLV_from_bytes(data')
       IN  op' = [name |-> "SystemCapabilitiesTLV.from_bytes", tlv |-> r.tlv,
                  on |-> EmptyLLDPDU, exc |-> r.exc, ret |-> FALSE]
    /\ UNCHANGED <<tlvs, length, cur_idx, pc, exc, args, agentVars>>

NextCaps ==
    \/ CallSystemCapabilitiesTLV
    \/ CallSystemCapabilitiesTLV_from_bytes

SpecCaps == InitCaps /\ [][NextCaps]_vars

(***************************************************************************)
(* The string TLVs by themselves: args is a type tag and a text, the       *)
(* constructor of that class is called on the text, and what it returns is *)
(* appended to an LLDPDU that holds the three mandatory records.           *)
(***************************************************************************)
StringTypes == {PORT_DESCRIPTION, SYSTEM_NAME, SYSTEM_DESCRIPTION}

\* the lengths of the texts, in octets: around 255, and up to what the header's
\* nine bits of length can say
StringLengths == {0, 1, 2, 127, 128, 254, 255, 256, 257, 300, 400, 511}

InitStrings ==
    /\ tlvs = <<chassis, port, ttl60>>
    /\ length = Len(Concat(Prefix))
    /\ op = NoCall
    /\ ParserIdle
    /\ args \in {<<type, Fill(n, c)>> :
                    type \in StringTypes, n \in StringLengths, c \in {97, 122}}
    /\ AgentIdle

\* PortDescriptionTLV(text), SystemNameTLV(text) or SystemDescriptionTLV(text)
CallStringTLV ==
    /\ op = NoCall
    /\ LET r == StringTLV(args[1], args[2])
       IN  op' = [name |-> "StringTLV", tlv |-> r.tlv, on |-> Self, exc |-> r.exc,
                  ret |-> FALSE]
    /\ UNCHANGED <<tlvs, length, data, cur_idx, pc, exc, args, agentVars>>

\* lldpdu.append of the TLV the constructor returned
AppendString ==
    /\ op.name = "StringTLV"
    /\ op.exc = "none"
    /\ CallAppend(op.tlv)

NextStrings ==
    \/ CallStringTLV
    \/ AppendString

SpecStrings == InitStrings /\ [][NextStrings]_vars

(***************************************************************************)
(* The Chassis ID of a network address by itself: args is the octet of the *)
(* address family and the octets that follow it, and from_bytes is called  *)
(* on the record of subtype 5 that holds them.  The record is a bytes      *)
(* object, as recv returns it.                                             *)
(***************************************************************************)
AddressFamilies == {0, 1, 2, 3, 7, 255}

\* the numbers of octets after the family: around the 4 of IPv4 and the 16 of IPv6
PackedLengths == {0, 1, 3, 4, 5, 15, 16, 17}

InitNetworkAddress ==
    /\ tlvs = <<>>
    /\ length = 0
    /\ op = NoCall
    /\ ParserIdle
    /\ args \in {<<family, Fill(n, c)>> :
                    family \in AddressFamilies, n \in PackedLengths, c \in {10, 255}}
    /\ AgentIdle

\* the Chassis ID record of subtype 5 with this family octet and these octets
NetworkAddressRecord(family, packed) ==
    <<CHASSIS_ID * 2, Len(packed) + 2, NETWORK_ADDRESS, family>> \o packed

\* ChassisIdTLV.from_bytes(data) on that record
CallChassisIdTLV_from_bytes ==
    /\ op = NoCall
    /\ data' = NetworkAddressRecord(args[1], args[2])
    /\ LET r == ChassisIdTLV_from_bytes(data')
       IN  op' = [name |-> "ChassisIdTLV.from_bytes", tlv |-> r.tlv,
                  on |-> EmptyLLDPDU, exc |-> r.exc, ret |-> FALSE]
    /\ UNCHANGED <<tlvs, length, cur_idx, pc, exc, args, agentVars>>

NextNetworkAddress == CallChassisIdTLV_from_bytes

SpecNetworkAddress == InitNetworkAddress /\ [][NextNetworkAddress]_vars

(***************************************************************************)
(* A record of type 7 of any declared length: args holds its payload, and  *)
(* the record is decoded by SystemCapabilitiesTLV.from_bytes, or by        *)
(* LLDPDU.from_bytes in a buffer where it follows the three mandatory      *)
(* records and an End Of LLDPDU follows it.                                *)
(***************************************************************************)
\* the numbers of payload octets, around the 4 of two bitmaps
PayloadLengths == {0, 1, 2, 3, 4, 5, 6, 7, 8}

\* every octet of the payload is c: supported and enabled are the same bitmap
InitPayload ==
    /\ tlvs = <<>>
    /\ length = 0
    /\ op = NoCall
    /\ ParserIdle
    /\ args \in {<<Fill(n, c)>> : n \in PayloadLengths, c \in {0, 4, 255}}
    /\ AgentIdle

\* the record of type 7 whose header declares the length of the payload
PayloadRecord(payload) == <<SYSTEM_CAPABILITIES * 2, Len(payload)>> \o payload

\* SystemCapabilitiesTLV.from_bytes(data) on that record
DecodePayload ==
    /\ op = NoCall
    /\ pc = "idle"
    /\ data' = PayloadRecord(args[1])
    /\ LET r == SystemCapabilitiesTLV_from_bytes(data')
       IN  op' = [name |-> "SystemCapabilitiesTLV.from_bytes", tlv |-> r.tlv,
                  on |-> EmptyLLDPDU, exc |-> r.exc, ret |-> FALSE]
    /\ UNCHANGED <<tlvs, length, cur_idx, pc, exc, args, agentVars>>

\* LLDPDU.from_bytes(data) on the buffer that holds that record
ParsePayload ==
    /\ op = NoCall
    /\ pc = "idle"
    /\ ParseBuffer(Concat(Prefix) \o PayloadRecord(args[1])
                       \o TLV_bytes(EndOfLLDPDUTLV))

NextPayload ==
    \/ DecodePayload
    \/ ParsePayload
    \/ LoopPass

SpecPayload == InitPayload /\ [][NextPayload]_vars

(***************************************************************************)
(* The invariants I1 to I4 of an LLDPDU, stated on a sequence of records.  *)
(***************************************************************************)
\* record 0, if present, is a ChassisId; record 1 a PortId; record 2 a TTL
PrefixInv(s) ==
    /\ Len(s) >= 1 => s[1].type = CHASSIS_ID
    /\ Len(s) >= 2 => s[2].type = PORT_ID
    /\ Len(s) >= 3 => s[3].type = TTL

\* I1: the first three records are ChassisId, PortId, TTL
I1(s) == Len(s) >= 3 /\ PrefixInv(s)

Count(s, type) == Cardinality({i \in 1..Len(s) : s[i].type = type})

Singletons == {CHASSIS_ID, PORT_ID, TTL, END_OF_LLDPDU}

\* I2: at most one of each singleton
I2(s) == \A type \in Singletons : Count(s, type) <= 1

\* I3: an End Of LLDPDU record is the last record
I3(s) == \A i \in 1..Len(s) : s[i].type = END_OF_LLDPDU => i = Len(s)

\* the octets the records of s encode to
SerializedSize(s) == Len(LLDPDU_bytes([tlvs |-> s, length |-> 0]))

\* I4: the size ceiling
I4(s) == SerializedSize(s) <= 1500

\* the last call was an append, and it raised / returned
Appended == op.name = "append" /\ op.exc = "none"
AppendFailed == op.name = "append" /\ op.exc # "none"

(***************************************************************************)
(* C1: after any sequence of append calls, record 0 (if present) is a      *)
(* ChassisId, record 1 a PortId, record 2 a TTL; and append refuses a      *)
(* non-chassis first record, a PortId before the ChassisId, a TTL before   *)
(* the PortId and any other record (End included) before all three.        *)
(***************************************************************************)
C1_Prefix ==
    /\ PrefixInv(tlvs)
    /\ op.name = "append" =>
        /\ (op.on.tlvs = <<>> /\ op.tlv.type # CHASSIS_ID) => op.exc # "none"
        /\ (op.tlv.type = PORT_ID /\ Count(op.on.tlvs, CHASSIS_ID) = 0)
               => op.exc # "none"
        /\ (op.tlv.type = TTL /\ Count(op.on.tlvs, PORT_ID) = 0) => op.exc # "none"
        /\ (op.tlv.type \notin {CHASSIS_ID, PORT_ID, TTL} /\ ~I1(op.on.tlvs))
               => op.exc # "none"

\* a TTL was offered right after the ChassisId, and refused
C1_Witness ==
    /\ AppendFailed
    /\ op.tlv.type = TTL
    /\ Len(tlvs) = 1
    /\ tlvs[1].type = CHASSIS_ID

(***************************************************************************)
(* C2: whenever append raises, whatever the cause, the records and the     *)
(* length counter are what they were before the call.                      *)
(***************************************************************************)
C2_FailedAppendChangesNothing ==
    AppendFailed => tlvs = op.on.tlvs /\ length = op.on.length

\* an append refused for its size alone, on an LLDPDU with records in it
C2_Witness ==
    /\ AppendFailed
    /\ I1(tlvs)
    /\ SerializedSize(tlvs) + Len(TLV_bytes(op.tlv)) > 1500
    /\ op.tlv.type = ORGANIZATIONALLY_SPECIFIC
    /\ Count(tlvs, END_OF_LLDPDU) = 0

(***************************************************************************)
(* C3: every reachable LLDPDU holds at most one ChassisId, PortId, TTL and *)
(* EndOfLLDPDU, and an append of a second one of these fails.              *)
(***************************************************************************)
C3_Singletons ==
    /\ I2(tlvs)
    /\ (op.name = "append" /\ op.tlv.type \in Singletons
            /\ Count(op.on.tlvs, op.tlv.type) >= 1) => op.exc # "none"

\* a second ChassisId was offered after a valid prefix, and refused
C3_Witness ==
    /\ AppendFailed
    /\ op.tlv.type = CHASSIS_ID
    /\ I1(tlvs)
    /\ Count(tlvs, END_OF_LLDPDU) = 0
    /\ SerializedSize(tlvs) + Len(TLV_bytes(op.tlv)) <= 1500

(***************************************************************************)
(* C4: once an EndOfLLDPDU is in the LLDPDU every append fails, so an      *)
(* EndOfLLDPDU, when present, is the last record.                          *)
(***************************************************************************)
C4_Terminator ==
    /\ I3(tlvs)
    /\ (op.name = "append" /\ Count(op.on.tlvs, END_OF_LLDPDU) >= 1)
           => op.exc # "none"

\* an optional record was offered after the End, and refused
C4_Witness ==
    /\ AppendFailed
    /\ op.tlv.type = PORT_DESCRIPTION
    /\ Len(tlvs) >= 4
    /\ tlvs[Len(tlvs)].type = END_OF_LLDPDU

(***************************************************************************)
(* C5: the records of a reachable LLDPDU encode to at most 1500 octets: an *)
(* append that would bring the total to 1501 or more is refused, and an    *)
(* otherwise valid append that brings it to exactly 1500 succeeds.         *)
(***************************************************************************)
\* the records of s followed by tlv keep I1's order, I2 and I3
OrderAdmits(s, tlv) ==
    PrefixInv(Append(s, tlv)) /\ I2(Append(s, tlv)) /\ I3(Append(s, tlv))

C5_SizeCeiling ==
    /\ I4(tlvs)
    /\ op.name = "append" =>
        LET total == SerializedSize(op.on.tlvs) + Len(TLV_bytes(op.tlv))
        IN  /\ total >= 1501 => op.exc # "none"
            /\ (total = 1500 /\ OrderAdmits(op.on.tlvs, op.tlv)) => op.exc = "none"

\* an append has just brought the LLDPDU to exactly 1500 octets
C5_Witness == Appended /\ SerializedSize(tlvs) = 1500

(***************************************************************************)
(* C6: complete() returns true exactly when the first three records are    *)
(* ChassisId, PortId, TTL in that order; it is false with fewer than three *)
(* records, and optional records or an End do not change it.               *)
(***************************************************************************)
C6_Complete ==
    /\ complete(Self) <=> I1(tlvs)
    /\ op.name = "complete" =>
        /\ op.ret <=> I1(tlvs)
        /\ Len(tlvs) < 3 => ~op.ret

\* complete() has answered true on an LLDPDU with an optional record and an End
C6_Witness ==
    /\ op.name = "complete"
    /\ op.ret
    /\ Len(tlvs) = 5
    /\ tlvs[4].type = SYSTEM_CAPABILITIES
    /\ tlvs[5].type = END_OF_LLDPDU

(***************************************************************************)
(* Claims about from_bytes, under SpecParse.                               *)
(***************************************************************************)
\* from_bytes has returned or raised
Terminal == pc \in {"returned", "raised"}

RecognizedTypes ==
    {END_OF_LLDPDU, CHASSIS_ID, PORT_ID, TTL, PORT_DESCRIPTION, SYSTEM_NAME,
     SYSTEM_DESCRIPTION, SYSTEM_CAPABILITIES, MANAGEMENT_ADDRESS,
     ORGANIZATIONALLY_SPECIFIC}

\* LLDPDUs of well-formed records, the mandatory three and then optional
\* ones, without an End Of LLDPDU TLV, each with the octets it encodes to
NoEndLLDPDUs ==
    {[tlvs |-> s, wire |-> LLDPDU_bytes([tlvs |-> s, length |-> 0])] :
        s \in {<<chassis, port, ttl60>> \o tail :
                  tail \in SeqsUpTo(OptionalTLVs, MaxTail)}
              \cup {<<bigChassis, bigPort, ttl60, OrgOfSize(470)>>}}

(***************************************************************************)
(* C7: from_bytes accepts a buffer of a well-formed ChassisId, PortId and  *)
(* TTL, optionally followed by well-formed optional records, that holds no *)
(* EndOfLLDPDU: it returns the LLDPDU of exactly those records and raises  *)
(* nothing.                                                                *)
(***************************************************************************)
C7_NoEndAccepted ==
    \A l \in NoEndLLDPDUs :
        (Terminal /\ data = l.wire) => (pc = "returned" /\ exc = "none" /\ tlvs = l.tlvs)

(***************************************************************************)
(* C8: when from_bytes, past a valid mandatory prefix, reaches a record of *)
(* type EndOfLLDPDU, it appends the End, stops and returns, whatever       *)
(* octets follow the record; nothing after the End is in the result.       *)
(***************************************************************************)
\* from_bytes is at the loop test, past a valid mandatory prefix, with a
\* whole record of type End Of LLDPDU before it
AtEndRecord ==
    /\ pc = "loop"
    /\ I1(tlvs)
    /\ cur_idx + 2 <= Len(data)
    /\ HeaderType(data, cur_idx) = END_OF_LLDPDU
    /\ cur_idx + HeaderLen(data, cur_idx) + 2 <= Len(data)

\* the step stores the End and returns
EndAccepted ==
    /\ pc' = "returned"
    /\ exc' = "none"
    /\ tlvs' = Append(tlvs, EndOfLLDPDUTLV)

\* the claim as it is made: every End record past a valid prefix is accepted
C8_EndAlwaysAccepted == [][AtEndRecord => EndAccepted]_vars

\* C8 as amended: when the records before the End record encode to at most
\* 1498 octets (so that the End fits under the 1500-octet ceiling), the End
\* is appended and from_bytes returns, whatever octets follow; a returned
\* LLDPDU ends with its only End and no step is taken after the return.
C8_EndStopsParsing ==
    /\ [][(AtEndRecord /\ SerializedSize(tlvs) + 2 <= 1500) => EndAccepted]_vars
    /\ [][pc # "returned"]_vars
    /\ [](pc = "returned" =>
            /\ tlvs # <<>>
            /\ tlvs[Len(tlvs)].type = END_OF_LLDPDU
            /\ Count(tlvs, END_OF_LLDPDU) = 1)

\* from_bytes has returned at an End that octets follow in the buffer
C8_Witness ==
    /\ pc = "returned"
    /\ exc = "none"
    /\ cur_idx < Len(data)
    /\ tlvs[Len(tlvs)].type = END_OF_LLDPDU
    /\ I1(tlvs)

(***************************************************************************)
(* C9: from_bytes fails, returning no LLDPDU, whenever a record it reaches *)
(* at any position carries a type tag that is not one of the ten           *)
(* recognized ones; an unknown record is never skipped or passed through.  *)
(***************************************************************************)
\* from_bytes is at the loop test with an octet of unknown type tag before it
AtUnknownRecord ==
    /\ pc = "loop"
    /\ cur_idx < Len(data)
    /\ HeaderType(data, cur_idx) \notin RecognizedTypes

C9_UnknownTypeFatal ==
    /\ [][AtUnknownRecord =>
            /\ pc' = "raised"
            /\ tlvs' = tlvs
            /\ cur_idx' = cur_idx
            /\ exc' = IF cur_idx + 2 <= Len(data) THEN "ValueError" ELSE "IndexError"]_vars
    /\ [](\A i \in 1..Len(tlvs) : tlvs[i].type \in RecognizedTypes)

\* from_bytes has raised at a record of unknown type that follows a valid
\* prefix and an optional record
C9_Witness ==
    /\ pc = "raised"
    /\ exc = "ValueError"
    /\ Len(tlvs) = 4
    /\ cur_idx + 2 <= Len(data)
    /\ HeaderType(data, cur_idx) \notin RecognizedTypes
    /\ cur_idx + HeaderLen(data, cur_idx) + 2 <= Len(data)

(***************************************************************************)
(* C10: from_bytes stores every record through append's validation, so the *)
(* LLDPDU it builds never violates I1 to I4: a buffer of well-formed       *)
(* records that are out of order, repeat a singleton or pass 1500 octets   *)
(* makes it fail at the first offending record.                            *)
(***************************************************************************)
C10_ParserValidates ==
    /\ pc # "idle" => PrefixInv(tlvs) /\ I2(tlvs) /\ I3(tlvs) /\ I4(tlvs)
    /\ pc = "returned" => I1(tlvs)
    /\ (op.name = "append"
            /\ \/ ~OrderAdmits(op.on.tlvs, op.tlv)
               \/ SerializedSize(op.on.tlvs) + Len(TLV_bytes(op.tlv)) > 1500)
         => /\ pc = "raised"
            /\ exc = "ValueError"
            /\ tlvs = op.on.tlvs
            /\ Slice(data, 0, cur_idx) = LLDPDU_bytes(Self)

\* from_bytes has raised at a well-formed optional record, in its place, that
\* takes the LLDPDU past 1500 octets
C10_Witness ==
    /\ pc = "raised"
    /\ op.name = "append"
    /\ op.tlv.type = ORGANIZATIONALLY_SPECIFIC
    /\ OrderAdmits(op.on.tlvs, op.tlv)
    /\ SerializedSize(op.on.tlvs) + Len(TLV_bytes(op.tlv)) = 1501

(***************************************************************************)
(* The round trip of an LLDPDU.                                            *)
(***************************************************************************)
\* from_bytes has come to its end on the encoding of a built LLDPDU
RoundTripDone == args # <<>> /\ pc \in {"returned", "raised"}

\* the LLDPDU that was encoded ends with an End Of LLDPDU record
EncodedWithEnd == args # <<>> /\ args[Len(args)].type = END_OF_LLDPDU

\* from_bytes returned the records that were encoded
RoundTripEqual == pc = "returned" /\ tlvs = args

\* C11: for every LLDPDU built by successful appends, with or without a final
\* End Of LLDPDU record, from_bytes of its encoding succeeds and yields the same
\* records, of the same types and values, in the same order
C11_RoundTrip == RoundTripDone => RoundTripEqual

\* the part of C11 the code keeps: an LLDPDU that ends with an End Of LLDPDU
\* record comes back as it was
RoundTripWithEnd == (RoundTripDone /\ EncodedWithEnd) => RoundTripEqual

\* without the End record from_bytes runs past the buffer, as in C7
RoundTripWithoutEnd ==
    (RoundTripDone /\ ~EncodedWithEnd) => (pc = "raised" /\ exc = "IndexError")

(***************************************************************************)
(* The agent's handling of received frames.                                *)
(***************************************************************************)
LLDPMulticast ==
    {<<1, 128, 194, 0, 0, 0>>, <<1, 128, 194, 0, 0, 3>>, <<1, 128, 194, 0, 0, 14>>}

DestOf(f) == SubSeq(f, 1, 6)
SrcOf(f) == SubSeq(f, 7, 12)

\* the frame f passes the three checks of an agent whose address is mac
HeaderPasses(f, mac) ==
    /\ Len(f) >= 14
    /\ DestOf(f) \in LLDPMulticast
    /\ SrcOf(f) # mac
    /\ <<f[13], f[14]>> = <<136, 204>>

\* run has stopped, or is in its finally clause
Stopped == at \in {"finally", "returned", "raised"}

\* C12: a received frame is parsed and logged, and counted as accepted, only if
\* its destination is one of the three LLDP multicast addresses, its source is not
\* the local address and its ethertype is 0x88CC; a frame that fails one of the
\* three is never handed to from_bytes nor to the logger
C12_OnlyValidFramesParsed ==
    /\ \A i \in 1..Len(logger) : HeaderPasses(logger[i].frame, mac_address)
    /\ received => logger # <<>>
    /\ (at = "parse" \/ pc # "idle") =>
          (HeaderPasses(frame, mac_address) /\ data = Slice(frame, 14, Len(frame)))

\* a frame has been logged and the frame after it has been dropped
C12_Witness ==
    /\ Len(logger) = 1
    /\ delivered = 2
    /\ ~HeaderPasses(frame, mac_address)
    /\ at = "test"

\* the frame in hand comes from the agent's own address
FromSelf == Len(frame) >= 12 /\ SrcOf(frame) = mac_address

\* C13: on a frame whose source is the local address the agent logs nothing, does
\* not count the frame as accepted and changes nothing of its state: the pass ends
\* with logger, received, t_previous, sent and socket as they were
C13_SelfLoopSuppressed ==
    [][(at = "check" /\ FromSelf) =>
          /\ logger' = logger
          /\ received' = received
          /\ t_previous' = t_previous
          /\ sent' = sent
          /\ socket' = socket
          /\ raising' = raising
          /\ pc' = pc
          /\ (at' = "test" \/ (interrupted' /\ ~interrupted))]_vars

\* a frame from the agent's own address, which passes the destination check, has
\* been dropped
C13_Witness ==
    /\ at = "test"
    /\ delivered >= 1
    /\ FromSelf
    /\ DestOf(frame) \in LLDPMulticast
    /\ <<frame[13], frame[14]>> = <<136, 204>>

\* C14: a frame that passes the three checks and whose payload from_bytes refuses
\* is only dropped: the error does not go on out of run and the socket stays open
\* (unless a KeyboardInterrupt arrives)
C14_ParseErrorSurvived ==
    pc = "raised" => (raising = "none" /\ (socket = "closed" => interrupted))

\* C15: in every pass, after the wait has returned, the agent announces if more
\* than announce_interval has passed since t_previous and sets t_previous to now:
\* at the loop test that follows no announce is overdue
C15_CadenceAfterEveryWait ==
    at = "test" => ~(clock - t_previous > announce_interval)

\* the frame C16 describes
ExpectedAnnounce ==
    <<1, 128, 194, 0, 0, 14>> \o mac_address \o <<136, 204>>
        \o <<2, 7, 4>> \o mac_address
        \o <<4, Len(interface_name) + 1, 6>> \o interface_name
        \o <<6, 2, 0, 60>>

\* C16: every frame the agent sends goes to 01:80:c2:00:00:0e from the local
\* address with ethertype 0x88CC and carries ChassisId(MAC, local address),
\* PortId(InterfaceName, interface_name), TTL(60) and nothing else
C16_AnnounceShape == \A i \in 1..Len(sent) : sent[i] = ExpectedAnnounce

C16_Witness == Len(sent) >= 2 /\ interface_name = <<101, 116, 104, 48>>

\* C17: with run_once the loop ends exactly when the first frame has been
\* accepted, with one LLDPDU logged; without run_once it does not end.  An
\* interrupt and an error of the socket are not the loop's doing
C17_RunOnce ==
    /\ run_once => Len(logger) <= 1
    /\ (Stopped /\ ~interrupted /\ raising # "OSError") =>
          (run_once /\ received /\ Len(logger) = 1 /\ raising = "none")

\* C18: however run stops, the socket is closed by then, and nothing is
\* received or sent once it is closed
C18_SocketClosed ==
    /\ [](at \in {"returned", "raised"} => socket = "closed")
    /\ [][socket = "closed" =>
             (sent' = sent /\ delivered' = delivered /\ frame' = frame
              /\ socket' = "closed")]_vars

\* run has ended with an error of from_bytes propagating, the socket closed
C18_Witness ==
    at = "raised" /\ raising \in {"ValueError", "IndexError"} /\ socket = "closed"

(***************************************************************************)
(* The silent link.                                                        *)
(***************************************************************************)
\* there is time left on the clock for two waits
TimeForTwoWaits == clock + (2 * announce_interval) + MaxLate <= MaxClock

\* C19: on a silent link, without run_once, every wait ends announce_interval
\* after it began (or at most MaxLate later), and the agent goes on announcing:
\* after any announce, and after the start, another announce is sent in the end,
\* though no frame is ever received
C19_SilentLinkAnnounces ==
    /\ [][(at = "select" /\ at' = "cadence") =>
             (clock' - clock) \in announce_interval..(announce_interval + MaxLate)]_vars
    /\ [](delivered = 0 /\ logger = <<>>)
    /\ \A n \in 0..MaxClock :
          (Len(sent) = n /\ TimeForTwoWaits) ~> (Len(sent) > n)

\* an announce has followed an announce, for either interval
C19_Witness == Len(sent) >= 2 /\ delivered = 0 /\ announce_interval = 2

(***************************************************************************)
(* System capabilities.                                                    *)
(***************************************************************************)
\* bit i of the bitmap n
Bit(n, i) == (n \div (2 ^ i)) % 2

\* enabled & ~supported == 0
EnabledWithinSupported(supported, enabled) ==
    \A i \in 0..15 : Bit(enabled, i) <= Bit(supported, i)

CapsCalled ==
    op.name \in {"SystemCapabilitiesTLV", "SystemCapabilitiesTLV.from_bytes"}

\* C20: the constructor and from_bytes both fail when enabled has a bit that
\* supported has not, and only then: every TLV they yield has
\* enabled & ~supported == 0, and keeps the two bitmaps as they were given,
\* reserved bits included
C20_CapabilityConstraint ==
    CapsCalled =>
        /\ op.exc = "none" <=> EnabledWithinSupported(args[1], args[2])
        /\ op.exc \in {"none", "ValueError"}
        /\ op.exc = "none" =>
              /\ op.tlv.type = 7
              /\ op.tlv.bytes = U16(args[1]) \o U16(args[2])
              /\ op.tlv.value = <<args[1], args[2]>>

\* a record whose bitmaps have the reserved bit 11 has been decoded
C20_Witness ==
    /\ op.name = "SystemCapabilitiesTLV.from_bytes"
    /\ op.exc = "none"
    /\ args = <<2052, 2048>>

(***************************************************************************)
(* The string TLVs.                                                        *)
(***************************************************************************)
\* C21: the constructor of a string TLV refuses a text of 256 octets or more and
\* takes one of 0 to 255 octets, so that no LLDPDU holds a string TLV whose
\* payload is longer than 255 octets
C21_StringLimit ==
    /\ op.name = "StringTLV" => (op.exc = "none" <=> Len(args[2]) <= 255)
    /\ \A i \in 1..Len(tlvs) :
          tlvs[i].type \in {4, 5, 6} => Len(tlvs[i].bytes) <= 255

\* what the code does: every text is taken, and the LLDPDU takes the TLV
StringsUnbounded ==
    /\ op.name = "StringTLV" => op.exc = "none"
    /\ (op.name = "append" /\ Len(args) = 2) =>
          (op.exc = "none" /\ tlvs[Len(tlvs)].bytes = args[2])

(***************************************************************************)
(* The Chassis ID of a network address.                                    *)
(***************************************************************************)
\* family 1 with 4 octets, or family 2 with 16
FamilyAgrees(family, packed) ==
    \/ family = 1 /\ Len(packed) = 4
    \/ family = 2 /\ Len(packed) = 16

\* C22: decoding a Chassis ID record of subtype 5 succeeds for family 1 with 4
\* octets and for family 2 with 16 octets, and fails for every other family
\* octet and every other number of octets
C22_NetworkAddressFamily ==
    op.name = "ChassisIdTLV.from_bytes" =>
        (op.exc = "none" <=> FamilyAgrees(args[1], args[2]))

\* what the code does: the family octet is looked at only when it is 1 or 2;
\* with any other family 4 octets make an IPv4 address and 16 an IPv6 address
FamilyUnchecked ==
    op.name = "ChassisIdTLV.from_bytes" =>
        (op.exc = "none" <=>
            \/ Len(args[2]) = 4 /\ args[1] # 2
            \/ Len(args[2]) = 16 /\ args[1] # 1)

(***************************************************************************)
(* The length of a system capabilities record.                             *)
(***************************************************************************)
\* SystemCapabilitiesTLV.from_bytes has been called on the record of args
PayloadDecoded == op.name = "SystemCapabilitiesTLV.from_bytes"

\* LLDPDU.from_bytes has ended on the buffer that holds the record of args
PayloadParsed == data # <<>> /\ ~PayloadDecoded /\ pc \in {"returned", "raised"}

\* C23: a record of type 7 is decoded only if its payload is exactly 4 octets;
\* with any other payload length it is refused, by
\* SystemCapabilitiesTLV.from_bytes and inside LLDPDU.from_bytes
C23_CapabilitiesLength ==
    /\ PayloadDecoded => (op.exc = "none" <=> Len(args[1]) = 4)
    /\ PayloadParsed => (pc = "returned" <=> Len(args[1]) = 4)

\* what the code does: the first four octets are unpacked whatever the
\* declared length, and fewer than four make unpack_from raise struct.error
PayloadUnchecked ==
    /\ PayloadDecoded =>
          op.exc = (IF Len(args[1]) >= 4 THEN "none" ELSE "struct.error")
    /\ PayloadParsed =>
          /\ pc = "returned" <=> Len(args[1]) >= 4
          /\ pc = "raised" => exc = "struct.error"

(***************************************************************************)
(* The order of logging and announcing within a pass.                      *)
(***************************************************************************)
\* the pass has a frame that is neither dropped nor logged yet
FramePending == at \in {"check", "parse"}

\* the pass is at the cadence check or inside announce
AtAnnounceSide == at \in {"cadence", "announce"}

\* C24: within a pass a frame is parsed and logged before announce is
\* considered: a frame is sent only by the announce step, never while a frame
\* is waiting to be logged, and the only way from a received frame to the
\* cadence check and announce is the step that logs that frame
C24_LogBeforeAnnounce ==
    /\ [](AtAnnounceSide => pc = "idle")
    /\ [][/\ sent' # sent => (at = "announce" /\ ~FramePending /\ logger' = logger)
          /\ (FramePending /\ AtAnnounceSide') =>
                 (/\ Len(logger') = Len(logger) + 1
                  /\ logger'[Len(logger')].frame = frame
                  /\ sent' = sent)
          /\ (logger' # logger) => (FramePending /\ sent' = sent)]_vars

\* with run_once set a pass that has accepted a frame is the last one: this
\* pass has logged its frame and is now calling announce
C24_Witness ==
    /\ run_once
    /\ received
    /\ at = "announce"
    /\ logger # <<>>
    /\ logger[Len(logger)].frame = frame

(***************************************************************************)
(* The length counter of the LLDPDU.                                       *)
(***************************************************************************)
\* C25: the length counter is the number of octets of the encoding of the
\* records stored: 0 for no records, grown by len(bytes(tlv)) by an append
\* that returns, left alone by an append that raises
C25_LengthIsSerializedSize ==
    /\ length = Len(LLDPDU_bytes(Self))
    /\ tlvs = <<>> => length = 0
    /\ (op.name = "append" /\ op.exc = "none") =>
          length = op.on.length + Len(TLV_bytes(op.tlv))
    /\ (op.name = "append" /\ op.exc # "none") => length = op.on.length
    /\ length <= 1500

\* a call of append, returned or refused, that leaves an LLDPDU of four records
\* or more and over 1000 octets
C25_Witness ==
    /\ op.name = "append"
    /\ Len(tlvs) >= 4
    /\ length > 1000
    /\ op.on.length > 0

(***************************************************************************)
(* The rate of the announces.                                              *)
(***************************************************************************)
\* C26: the agent announces no more often than its interval.  A frame is sent
\* only by the announce of a pass, which ends that pass; t_previous never
\* decreases and changes only as an announce is sent, to the clock reading of
\* that pass; that reading is more than announce_interval after t_previous,
\* which is the reading of the announce before or of the start of run; and
\* nothing is sent until more than announce_interval has passed since run
\* started, at clock 0
C26_AnnounceRate ==
    /\ [](/\ sent # <<>> => clock > announce_interval
          /\ Len(sent) * (announce_interval + 1) <= clock
          /\ t_previous <= clock)
    /\ [][/\ t_previous' >= t_previous
          /\ t_previous' # t_previous => sent' # sent
          /\ at' = "announce" => at \in {"cadence", "announce"}
          /\ sent' # sent =>
                /\ at = "announce"
                /\ at' = "test"
                /\ Len(sent') = Len(sent) + 1
                /\ t_now = clock
                /\ t_now - t_previous > announce_interval
                /\ t_previous' = t_now]_vars

\* a second announce has just been sent on a link that delivers frames
C26_Witness ==
    /\ Len(sent) >= 2
    /\ at = "test"
    /\ t_previous = clock
    /\ delivered >= 1

====
